---- MODULE Spec2Model ----
(***************************************************************************)
(* State-machine model of the storefront's database layer                  *)
(* (src/database.py, duplicated in src/app.py): the products, orders,      *)
(* order_items, reviews and wishlist tables and the operations on them.    *)
(*                                                                         *)
(* Abstractions: prices are integers (the REAL column holds whole numbers  *)
(* in the seed data), text columns that no modelled operation reads        *)
(* (image, description) are left out, and a storage fault is modelled only *)
(* at the write statements of place_order.                                 *)
(***************************************************************************)
EXTENDS Integers, Sequences, FiniteSets, TLC

\* ---------------------------------------------------------------- bounds
MaxStock == 3
MaxQty == 2
MaxCartLen == 2
MaxOrders == 2
MaxAdminOps == 1
MaxReviews == 2
MaxClock == 2
MaxUsers == 3
MaxProducts == 4
MaxPage == 3
MaxPageSize == 2

\* ------------------------------------------------------------ input sets
\* ids of the product rows present after seeding
ProductIds == {1, 2}
\* ids a cart line may carry: the existing products and one that has no row
CartIds == {1, 2, 3}
UserIds == {1, 2}
\* the users who check out
Buyers == {1}
\* the product ids the admin panel edits
AdminIds == {1}
\* unit prices (two of the seeded prices)
Prices == {150, 200}
Quantities == 1..MaxQty
\* the rating bounds add_review enforces
MinRating == 1
MaxRating == 5
\* ratings a caller may pass: the valid ones and one beyond each end
RatingInputs == (MinRating - 1)..(MaxRating + 1)
Comments == {"ok", "better"}
\* product ids reviewed and wishlisted
LedgerProductIds == {1, 2}

\* the name the shop shows for a product id (the seed rows' names)
NameOf(pid) ==
  CASE pid = 1 -> "Air Max 270"
    [] pid = 2 -> "Jordan Retro"
    [] OTHER   -> "Blazer Mid '77"

\* a cart line as add_to_cart assembles it: {id, name, price, quantity}
CartLines ==
  { [id |-> i, name |-> NameOf(i), price |-> p, quantity |-> q] :
      i \in CartIds, p \in Prices, q \in Quantities }

RECURSIVE SeqsUpTo(_, _)
SeqsUpTo(S, n) ==
  IF n = 0 THEN { <<>> }
  ELSE LET shorter == SeqsUpTo(S, n - 1)
       IN  shorter \cup { Append(s, x) : s \in { t \in shorter : Len(t) = n - 1 }, x \in S }

Carts == SeqsUpTo(CartLines, MaxCartLen)

\* the connections that run place_order at the same time
Conns == {1, 2}

\* the carts two buyers check out at the same time: built by add_to_cart, which
\* keeps one line per product, at the products' listed price
MergedCarts ==
  { cart \in Carts :
      /\ \A i, j \in 1..Len(cart) : cart[i].id = cart[j].id => i = j
      /\ \A i \in 1..Len(cart) : cart[i].price = 150 }

\* ----------------------------------------------------------------- state
VARIABLES
  products,     \* products table: id -> [price, stock]
  orders,       \* orders table, in rowid order
  order_items,  \* order_items table, in rowid order
  reviews,      \* reviews table, in rowid order
  wishlist,     \* wishlist table, in rowid order: [user_id, product_id, created_at]
  now,          \* the clock datetime.utcnow() reads
  last,         \* the last call made and what it returned
  sold,         \* per product, the quantity in the cart lines of successful place_order calls
  adminOps,     \* number of admin product mutations so far
  conn,         \* per connection, the place_order call running on it
  writer,       \* the connection holding the database's write lock, 0 when free
  users,        \* users table, in rowid order
  creds,        \* per user row, the username and password given when the password was last set
  catalog,      \* products table, columns name, category and created_at, by product id
  appStore      \* products, orders and order_items as src/app.py's place_order leaves them

orderVars == <<products, orders, order_items>>
ledgerVars == <<reviews, wishlist>>
connVars == <<conn, writer>>
userVars == <<users, creds>>
vars == <<products, orders, order_items, reviews, wishlist, now, last, sold, adminOps,
          conn, writer, users, creds, catalog, appStore>>

\* the three tables place_order touches, as one value
DB == [products |-> products, orders |-> orders, order_items |-> order_items]

InitStock(pid) == MaxStock

InitProducts == [p \in ProductIds |-> [price |-> 150, stock |-> InitStock(p)]]

\* Python's None in a returned tuple: the empty sequence; a value v: <<v>>
None == <<>>

\* ------------------------------------------------- place_order, by statement
\* c.execute("SELECT stock FROM products WHERE id=?"); c.fetchone()
SelectStock(d, pid) ==
  IF pid \in DOMAIN d.products THEN <<d.products[pid].stock>> ELSE None

\* the negation of `not row or row["stock"] < it["quantity"]`
StockOk(d, it) ==
  LET row == SelectStock(d, it.id)
  IN  ~(row = None \/ row[1] < it.quantity)

\* the stock-check loop: index of the first line that fails it, 0 when none does
RECURSIVE FirstBadFrom(_, _, _)
FirstBadFrom(d, cart, i) ==
  IF i > Len(cart) THEN 0
  ELSE IF ~StockOk(d, cart[i]) THEN i
  ELSE FirstBadFrom(d, cart, i + 1)

\* variant: only the cart's first line is checked
FirstBadFirstLineOnly(d, cart) ==
  IF cart # <<>> /\ ~StockOk(d, cart[1]) THEN 1 ELSE 0

FirstBad(d, cart) == FirstBadFrom(d, cart, 1)

\* variant: the total adds the unit prices, whatever the quantities
RECURSIVE CartTotalUnitPrices(_)
CartTotalUnitPrices(cart) ==
  IF cart = <<>> THEN 0
  ELSE cart[1].price + CartTotalUnitPrices(Tail(cart))

\* total = sum(it["price"] * it["quantity"] for it in cart_items)
RECURSIVE CartTotal(_)
CartTotal(cart) ==
  IF cart = <<>> THEN 0
  ELSE cart[1].price * cart[1].quantity + CartTotal(Tail(cart))

\* INSERT INTO orders(user_id, created_at, total); the AUTOINCREMENT id is
\* one more than the largest id used (no order row is ever deleted)
InsertOrder(d, user_id, at, total) ==
  [d EXCEPT !.orders =
     Append(@, [id |-> Len(@) + 1, user_id |-> user_id, created_at |-> at, total |-> total])]

\* c.lastrowid after the order insert
LastRowId(d) == d.orders[Len(d.orders)].id

\* variant: price_each is looked up in the products table
InsertOrderItemLivePrice(d, order_id, it) ==
  [d EXCEPT !.order_items =
     Append(@, [id |-> Len(@) + 1, order_id |-> order_id, product_id |-> it.id,
                quantity |-> it.quantity,
                price_each |-> IF it.id \in DOMAIN d.products
                               THEN d.products[it.id].price ELSE it.price])]

\* INSERT INTO order_items(order_id, product_id, quantity, price_each)
InsertOrderItem(d, order_id, it) ==
  [d EXCEPT !.order_items =
     Append(@, [id |-> Len(@) + 1, order_id |-> order_id, product_id |-> it.id,
                quantity |-> it.quantity, price_each |-> it.price])]

\* variant: the stock goes down by one per line, whatever the quantity
UpdateStockByOne(d, it) ==
  IF it.id \in DOMAIN d.products
  THEN [d EXCEPT !.products[it.id].stock = @ - 1]
  ELSE d

\* UPDATE products SET stock = stock - ? WHERE id=?  (no row: nothing changes)
UpdateStock(d, it) ==
  IF it.id \in DOMAIN d.products
  THEN [d EXCEPT !.products[it.id].stock = @ - it.quantity]
  ELSE d

\* number of write statements a cart's order issues: the order insert, then
\* an item insert and a stock update per line
NWrites(cart) == 1 + 2 * Len(cart)

\* write statement n of the call, run on the transaction's view t
ApplyWrite(t, user_id, cart, at, n) ==
  IF n = 1 THEN InsertOrder(t, user_id, at, CartTotal(cart))
  ELSE IF n % 2 = 0 THEN InsertOrderItem(t, LastRowId(t), cart[n \div 2])
  ELSE UpdateStock(t, cart[(n - 1) \div 2])

\* the transaction's view after the first n write statements
RECURSIVE RunWrites(_, _, _, _, _)
RunWrites(d, user_id, cart, at, n) ==
  IF n = 0 THEN d
  ELSE ApplyWrite(RunWrites(d, user_id, cart, at, n - 1), user_id, cart, at, n)

\* conn.commit(): the transaction's view becomes the database
Commit(d, tx) == tx

\* variant: the writes issued before the exception stay
RollbackKeepsWrites(d, tx) == tx

\* conn.rollback(): the transaction's view is dropped
Rollback(d, tx) == d

\* the body of place_order under `with get_conn() as conn: try:` run alone on
\* the database d at time `at`: the stock check, the writes, commit or rollback.
\* fault = 0: no statement raises; fault = k > 0: write statement k raises.
\* Returns the database afterwards and the returned tuple (ok, msg, order id);
\* writes counts the write statements that were executed.
PlaceOrderTx(d, user_id, cart, at, fault) ==
  LET bad == FirstBad(d, cart)
  IN  IF bad # 0
      THEN [db |-> d, ok |-> FALSE,
            msg |-> [text |-> "Not enough stock for", name |-> cart[bad].name],
            oid |-> None, writes |-> 0]
      ELSE IF fault = 0
      THEN LET tx == RunWrites(d, user_id, cart, at, NWrites(cart))
           IN  [db |-> Commit(d, tx), ok |-> TRUE,
                msg |-> [text |-> "Order placed.", name |-> ""],
                oid |-> <<LastRowId(tx)>>, writes |-> NWrites(cart)]
      ELSE LET tx == RunWrites(d, user_id, cart, at, fault - 1)
           IN  [db |-> Rollback(d, tx), ok |-> FALSE,
                msg |-> [text |-> "Error placing order", name |-> ""],
                oid |-> None, writes |-> fault - 1]

\* variant: the empty cart is not turned away
PlaceOrderNoEmptyCheck(d, user_id, cart, at, fault) ==
  PlaceOrderTx(d, user_id, cart, at, fault)

\* place_order(user_id, cart_items), run alone
PlaceOrder(d, user_id, cart, at, fault) ==
  IF cart = <<>>
  THEN [db |-> d, ok |-> FALSE, msg |-> [text |-> "Cart empty.", name |-> ""],
        oid |-> None, writes |-> 0]
  ELSE PlaceOrderTx(d, user_id, cart, at, fault)

\* quantity a cart asks of product pid, over all its lines
RECURSIVE CartQty(_, _)
CartQty(cart, pid) ==
  IF cart = <<>> THEN 0
  ELSE (IF cart[1].id = pid THEN cart[1].quantity ELSE 0) + CartQty(Tail(cart), pid)

\* the write statement that may raise: none (0), or any of those the call
\* reaches (a call that returns before its first write reaches none)
Faults(d, cart) ==
  IF cart # <<>> /\ FirstBad(d, cart) = 0 THEN 0..NWrites(cart) ELSE {0}

\* ------------------------------------------------------------------ users
\* Usernames are sequences of characters (register_user and authenticate
\* measure and strip them); passwords and salts are strings.
AdminName == <<"a", "d", "m", "i", "n">>

\* usernames a caller may pass: empty, too short, plain, with trailing or
\* leading whitespace, and differing in case only
Usernames ==
  { <<>>, <<"b", "o">>, <<"b", "o", "b">>, <<"b", "o", "b", " ">>,
    <<"B", "o", "b">>, <<" ", " ", "a">> }

\* passwords a caller may pass: empty, shorter than 6, and two long enough
Passwords == { "", "short", "secret1", "secret2" }

\* values os.urandom(16).hex() may return
Salts == { "a1", "b2" }

\* the shortest username and password register_user accepts
MinUsernameLen == 3
MinPasswordLen == 6

IsSpace(ch) == ch \in { " ", "\t", "\n" }

\* str.strip(): leading and trailing whitespace removed
RECURSIVE LStrip(_)
LStrip(s) ==
  IF s = <<>> THEN s
  ELSE IF IsSpace(Head(s)) THEN LStrip(Tail(s)) ELSE s

RECURSIVE RStrip(_)
RStrip(s) ==
  IF s = <<>> THEN s
  ELSE IF IsSpace(s[Len(s)]) THEN RStrip(SubSeq(s, 1, Len(s) - 1)) ELSE s

Strip(s) == RStrip(LStrip(s))

\* hashlib.sha256(...).hexdigest(), taken as collision-free: the digest of a
\* string is told apart from that of every other string
Digest(text) == <<"sha256", text>>

\* _hash_password(password, salt): a missing salt is drawn afresh (fresh is
\* the value os.urandom returns); the digest is of salt + password
HashPassword(password, salt, fresh) ==
  LET s == IF salt = "" THEN fresh ELSE salt
  IN  [hashed |-> Digest(s \o password), salt |-> s]

\* seed_admin(): the one admin row
InitUsers ==
  << [id |-> 1, username |-> AdminName,
      password_hash |-> HashPassword("admin123", "", "a1").hashed,
      password_salt |-> "a1", is_admin |-> 1, created_at |-> 0] >>

\* variant: the INSERT does not enforce UNIQUE(username)
InsertUserNoUnique(us, username, hashed, salt, at) ==
  [raised |-> FALSE,
   rows |-> Append(us, [id |-> Len(us) + 1, username |-> username,
                        password_hash |-> hashed, password_salt |-> salt,
                        is_admin |-> 0, created_at |-> at])]

\* INSERT INTO users(username, password_hash, password_salt, is_admin,
\* created_at) VALUES (?, ?, ?, 0, ?): raises sqlite3.IntegrityError when the
\* username (compared byte for byte) has a row
InsertUser(us, username, hashed, salt, at) ==
  IF \E i \in 1..Len(us) : us[i].username = username
  THEN [raised |-> TRUE, rows |-> us]
  ELSE [raised |-> FALSE,
        rows |-> Append(us, [id |-> Len(us) + 1, username |-> username,
                             password_hash |-> hashed, password_salt |-> salt,
                             is_admin |-> 0, created_at |-> at])]

\* register_user(username, password)
RegisterUser(us, username, password, fresh, at) ==
  IF username = <<>> \/ password = ""
  THEN [ok |-> FALSE, msg |-> "Username and password required.", users |-> us]
  ELSE IF Len(username) < MinUsernameLen
  THEN [ok |-> FALSE, msg |-> "Username must be >= 3 chars.", users |-> us]
  ELSE IF Len(password) < MinPasswordLen
  THEN [ok |-> FALSE, msg |-> "Password must be >= 6 chars.", users |-> us]
  ELSE LET h   == HashPassword(password, "", fresh)
           ins == InsertUser(us, Strip(username), h.hashed, h.salt, at)
       IN  IF ins.raised
           THEN [ok |-> FALSE, msg |-> "Username already exists.", users |-> us]
           ELSE [ok |-> TRUE, msg |-> "Registration successful.", users |-> ins.rows]

\* SELECT * FROM users WHERE username=?; fetchone()
SelectUser(us, username) ==
  LET hits == SelectSeq(us, LAMBDA r : r.username = username)
  IN  IF hits = <<>> THEN None ELSE <<hits[1]>>

\* variant: the username is looked up as typed
AuthenticateNoStrip(us, username, password) ==
  LET row == SelectUser(us, username)
  IN  IF row = None THEN <<FALSE, None>>
      ELSE IF HashPassword(password, row[1].password_salt, "").hashed = row[1].password_hash
      THEN <<TRUE, row>>
      ELSE <<FALSE, None>>

\* variant: a wrong password is answered with the user's name
AuthenticateNamesUser(us, username, password) ==
  LET row == SelectUser(us, Strip(username))
  IN  IF row = None THEN <<FALSE, None>>
      ELSE IF HashPassword(password, row[1].password_salt, "").hashed = row[1].password_hash
      THEN <<TRUE, row>>
      ELSE <<FALSE, <<row[1].username>> >>

\* authenticate(username, password): the returned pair (ok, user record or None)
Authenticate(us, username, password) ==
  LET row == SelectUser(us, Strip(username))
  IN  IF row = None THEN <<FALSE, None>>
      ELSE IF HashPassword(password, row[1].password_salt, "").hashed = row[1].password_hash
      THEN <<TRUE, row>>
      ELSE <<FALSE, None>>

\* variant: the new hash is stored, the old salt stays
ChangePasswordKeepsSalt(us, user_id, old_password, new_password, fresh) ==
  IF Len(new_password) < MinPasswordLen
  THEN [ok |-> FALSE, msg |-> "New password must be >= 6 chars.", users |-> us]
  ELSE IF user_id \notin 1..Len(us)
  THEN [ok |-> FALSE, msg |-> "User not found.", users |-> us]
  ELSE IF HashPassword(old_password, us[user_id].password_salt, "").hashed
            # us[user_id].password_hash
  THEN [ok |-> FALSE, msg |-> "Old password incorrect.", users |-> us]
  ELSE [ok |-> TRUE, msg |-> "Password updated.",
        users |-> [us EXCEPT ![user_id].password_hash =
                     HashPassword(new_password, "", fresh).hashed]]

\* change_password(user_id, old_password, new_password); user ids are the
\* row numbers (no user row is ever deleted)
ChangePassword(us, user_id, old_password, new_password, fresh) ==
  IF Len(new_password) < MinPasswordLen
  THEN [ok |-> FALSE, msg |-> "New password must be >= 6 chars.", users |-> us]
  ELSE IF user_id \notin 1..Len(us)
  THEN [ok |-> FALSE, msg |-> "User not found.", users |-> us]
  ELSE IF HashPassword(old_password, us[user_id].password_salt, "").hashed
            # us[user_id].password_hash
  THEN [ok |-> FALSE, msg |-> "Old password incorrect.", users |-> us]
  ELSE LET h == HashPassword(new_password, "", fresh)
       IN  [ok |-> TRUE, msg |-> "Password updated.",
            users |-> [us EXCEPT ![user_id].password_hash = h.hashed,
                                 ![user_id].password_salt = h.salt]]

\* ---------------------------------------------------------------- catalog
\* Product names and search strings are sequences of characters; a category
\* is None (SQL NULL) or <<text>>.
\* seed_products(): name and category of the seeded rows
InitCatalog ==
  [p \in ProductIds |->
     IF p = 1
     THEN [name |-> <<"A", "i", "r", " ", "M", "a", "x", " ", "2", "7", "0">>,
           category |-> <<"Running">>, created_at |-> 0]
     ELSE [name |-> <<"J", "o", "r", "d", "a", "n", " ", "R", "e", "t", "r", "o">>,
           category |-> <<"Basketball">>, created_at |-> 0]]

\* names and categories the admin form passes to add_product
ProductNames == { <<"A", "b">>, <<"c">> }
CategoryInputs == { None, <<"">>, <<"Running">> }

\* arguments of list_products
Searches == { <<>>, <<"B">>, <<"_">> }
CategoryFilters == { "", "All", "Running" }
PriceBounds == { None, <<150>> }
SortKeys == { "newest", "price_asc", "price_desc", "rating_desc" }
Pages == 1..MaxPage
PageSizes == 1..MaxPageSize

\* the clock counts ticks; datetime(created_at) keeps whole seconds
TicksPerSecond == 2
Second(t) == t \div TicksPerSecond

\* str.lower() and SQL LOWER() on the ASCII letters
LowerOf ==
  [A |-> "a", B |-> "b", C |-> "c", D |-> "d", E |-> "e", F |-> "f", G |-> "g",
   H |-> "h", I |-> "i", J |-> "j", K |-> "k", L |-> "l", M |-> "m", N |-> "n",
   O |-> "o", P |-> "p", Q |-> "q", R |-> "r", S |-> "s", T |-> "t", U |-> "u",
   V |-> "v", W |-> "w", X |-> "x", Y |-> "y", Z |-> "z"]

LowerChar(ch) == IF ch \in DOMAIN LowerOf THEN LowerOf[ch] ELSE ch

Lower(s) == [i \in 1..Len(s) |-> LowerChar(s[i])]

\* SQL `text LIKE pattern`: % stands for any run of characters, _ for any
\* one character, letters compare without regard to case
RECURSIVE Like(_, _)
Like(text, pattern) ==
  IF pattern = <<>> THEN text = <<>>
  ELSE IF Head(pattern) = "%"
  THEN Like(text, Tail(pattern)) \/ (text # <<>> /\ Like(Tail(text), pattern))
  ELSE IF text = <<>> THEN FALSE
  ELSE /\ Head(pattern) = "_" \/ LowerChar(Head(pattern)) = LowerChar(Head(text))
       /\ Like(Tail(text), Tail(pattern))

\* the WHERE clause list_products assembles, on one row
Where(row, search, category, price_min, price_max) ==
  /\ search # <<>> => Like(Lower(row.name), <<"%">> \o Lower(search) \o <<"%">>)
  /\ (category # "" /\ category # "All") => row.category = <<category>>
  /\ price_min # None => row.price >= price_min[1]
  /\ price_max # None => row.price <= price_max[1]

RECURSIVE SumRatings(_)
SumRatings(rows) ==
  IF rows = <<>> THEN 0 ELSE Head(rows).rating + SumRatings(Tail(rows))

ReviewsOf(revs, pid) == SelectSeq(revs, LAMBDA r : r.product_id = pid)

\* (SELECT COALESCE(AVG(rating),0) FROM reviews r WHERE r.product_id = p.id),
\* as the fraction num/den
AvgRating(revs, pid) ==
  LET rs == ReviewsOf(revs, pid)
  IN  IF rs = <<>> THEN [num |-> 0, den |-> 1]
      ELSE [num |-> SumRatings(rs), den |-> Len(rs)]

\* one row of SELECT p.*, ... AS avg_rating, ... AS review_count
ProductRow(prods, cat, revs, pid) ==
  [id |-> pid, name |-> cat[pid].name, price |-> prods[pid].price,
   category |-> cat[pid].category, stock |-> prods[pid].stock,
   created_at |-> cat[pid].created_at,
   avg_rating |-> AvgRating(revs, pid),
   review_count |-> Len(ReviewsOf(revs, pid))]

\* the product ids the WHERE clause keeps
Matching(prods, cat, revs, search, category, price_min, price_max) ==
  { pid \in DOMAIN prods :
      Where(ProductRow(prods, cat, revs, pid), search, category, price_min, price_max) }

\* the sequences that list the members of S with no member before one of a
\* smaller rank: the orders an ORDER BY may produce (the order of rows equal
\* under the key is not fixed by SQL)
RECURSIVE SortedSeqs(_, _)
SortedSeqs(S, rank) ==
  IF S = {} THEN { <<>> }
  ELSE UNION { { <<x>> \o rest : rest \in SortedSeqs(S \ {x}, rank) } :
               x \in { y \in S : \A z \in S : rank[z] >= rank[y] } }

\* order_sql of list_products, as a rank per row: a smaller rank comes first
OrderRank(rows, sort_by) ==
  [pid \in DOMAIN rows |->
     IF sort_by = "price_asc" THEN rows[pid].price
     ELSE IF sort_by = "price_desc" THEN 0 - rows[pid].price
     ELSE 0 - Second(rows[pid].created_at)]

\* LIMIT ? OFFSET ? (a negative offset counts as 0)
LimitOffset(rows, limit, offset) ==
  LET from == IF offset < 0 THEN 0 ELSE offset
      upto == IF from + limit < Len(rows) THEN from + limit ELSE Len(rows)
  IN  SubSeq(rows, from + 1, upto)

\* list_products(search, category, price_min, price_max, sort_by, page,
\* page_size): the results the call may have. With sort_by = "rating_desc"
\* the ORDER BY names products.id while the FROM clause knows the table as p
\* only, so the second execute raises sqlite3.OperationalError (no such
\* column: products.id) and the call returns nothing.
ListProducts(prods, cat, revs, search, category, price_min, price_max, sort_by, page, page_size) ==
  LET ids    == Matching(prods, cat, revs, search, category, price_min, price_max)
      rows   == [pid \in ids |-> ProductRow(prods, cat, revs, pid)]
      total  == Cardinality(ids)
      offset == (page - 1) * page_size
  IN  IF sort_by = "rating_desc"
      THEN { [raised |-> TRUE, rows |-> None, total |-> None] }
      ELSE { [raised |-> FALSE,
              rows |-> LimitOffset([i \in 1..Len(o) |-> rows[o[i]]], page_size, offset),
              total |-> <<total>>] :
             o \in SortedSeqs(ids, OrderRank(rows, sort_by)) }

\* the category labels of the model in the order of Python's str comparison
LabelOrder == <<"", "Basketball", "Running", "Uncategorized">>

\* SELECT DISTINCT COALESCE(category,'Uncategorized') FROM products: NULL
\* becomes the label, every other value (the empty string too) stays
DistinctCategories(cat) ==
  { IF cat[p].category = None THEN "Uncategorized" ELSE cat[p].category[1] :
      p \in DOMAIN cat }

\* cats.sort()
SortLabels(labels) == SelectSeq(LabelOrder, LAMBDA l : l \in labels)

\* product_categories()
ProductCategories(cat) == <<"All">> \o SortLabels(DistinctCategories(cat))

\* the id the INSERT gives a new products row (no row is deleted where rows
\* are added)
NextProductId(prods) ==
  IF DOMAIN prods = {} THEN 1
  ELSE (CHOOSE m \in DOMAIN prods : \A q \in DOMAIN prods : q <= m) + 1

\* add_product(name, price, image, category, description, stock)
AddProduct(prods, cat, name, price, category, stock, at) ==
  LET pid == NextProductId(prods)
  IN  [products |-> [q \in DOMAIN prods \cup {pid} |->
                       IF q = pid THEN [price |-> price, stock |-> stock] ELSE prods[q]],
       catalog  |-> [q \in DOMAIN cat \cup {pid} |->
                       IF q = pid
                       THEN [name |-> name, category |-> category, created_at |-> at]
                       ELSE cat[q]]]

\* ---------------------------------------------------------------- actions
Idle == [op |-> "idle"]

\* a connection on which no place_order call runs
NoCall == [pc |-> "idle"]

Init ==
  /\ products = InitProducts
  /\ orders = <<>>
  /\ order_items = <<>>
  /\ reviews = <<>>
  /\ wishlist = <<>>
  /\ now = 0
  /\ last = Idle
  /\ sold = [p \in ProductIds |-> 0]
  /\ adminOps = 0
  /\ conn = [c \in Conns |-> NoCall]
  /\ writer = 0
  /\ users = InitUsers
  /\ catalog = InitCatalog
  /\ appStore = [products |-> InitProducts, orders |-> <<>>, order_items |-> <<>>]
  /\ creds = <<[username |-> AdminName, password |-> "admin123", changed |-> FALSE]>>

\* one place_order call, run to completion with no other call in between
\* place_order with its arguments drawn from the given sets
PlaceOrderOver(buyers, carts) ==
  /\ last = Idle
  /\ Len(orders) < MaxOrders
  /\ \E user_id \in buyers, cart \in carts :
       \E fault \in Faults(DB, cart) :
         LET r == PlaceOrder(DB, user_id, cart, now, fault)
         IN  /\ products' = r.db.products
             /\ orders' = r.db.orders
             /\ order_items' = r.db.order_items
             /\ last' = [op |-> "place_order", user_id |-> user_id, cart |-> cart,
                         fault |-> fault, ok |-> r.ok, msg |-> r.msg, oid |-> r.oid,
                         writes |-> r.writes]
             /\ sold' = [p \in ProductIds |->
                           sold[p] + (IF r.ok THEN CartQty(cart, p) ELSE 0)]
             /\ UNCHANGED <<reviews, wishlist, now, adminOps, conn, writer, users, creds, catalog, appStore>>

PlaceOrderCall == PlaceOrderOver(Buyers, Carts)

\* update_product(pid, ..., price, ..., stock): UPDATE products ... WHERE id=?
UpdateProduct(d, pid, price, stock) ==
  IF pid \in DOMAIN d.products
  THEN [d EXCEPT !.products[pid] = [price |-> price, stock |-> stock]]
  ELSE d

UpdateProductCall ==
  /\ last = Idle
  /\ adminOps < MaxAdminOps
  /\ \E pid \in AdminIds, price \in Prices, stock \in 0..MaxStock :
       /\ products' = UpdateProduct(DB, pid, price, stock).products
       /\ last' = [op |-> "update_product", pid |-> pid, price |-> price,
                   stock |-> stock, ok |-> TRUE]
       /\ adminOps' = adminOps + 1
       /\ UNCHANGED <<orders, order_items, reviews, wishlist, now, sold, conn, writer, users, creds, catalog, appStore>>

\* the caller consumes the returned tuple (st.success / st.error) and the
\* page reruns: the next call can be made
Returned ==
  /\ last # Idle
  /\ last' = Idle
  /\ UNCHANGED <<products, orders, order_items, reviews, wishlist, now, sold, adminOps, conn, writer, users, creds, catalog, appStore>>

\* ------------------------------------------------------------- add_review
\* a row of the table has this (user_id, product_id)
HasPair(rows, user_id, product_id) ==
  \E i \in 1..Len(rows) : rows[i].user_id = user_id /\ rows[i].product_id = product_id

\* the table's CHECK(rating BETWEEN 1 AND 5)
RatingCheck(rating) == rating >= 1 /\ rating <= 5

\* variant: the INSERT succeeds whether or not the pair has a row
InsertReviewNoUnique(rows, user_id, product_id, rating, comment, at) ==
  IF ~RatingCheck(rating)
  THEN [raised |-> TRUE, rows |-> rows]
  ELSE [raised |-> FALSE,
        rows |-> Append(rows, [id |-> Len(rows) + 1, user_id |-> user_id,
                               product_id |-> product_id, rating |-> rating,
                               comment |-> comment, created_at |-> at])]

\* INSERT INTO reviews(...): raises sqlite3.IntegrityError when the CHECK or
\* UNIQUE(user_id, product_id) is violated (no review row is ever deleted, so
\* the AUTOINCREMENT id is the row count plus one)
InsertReview(rows, user_id, product_id, rating, comment, at) ==
  IF ~RatingCheck(rating) \/ HasPair(rows, user_id, product_id)
  THEN [raised |-> TRUE, rows |-> rows]
  ELSE [raised |-> FALSE,
        rows |-> Append(rows, [id |-> Len(rows) + 1, user_id |-> user_id,
                               product_id |-> product_id, rating |-> rating,
                               comment |-> comment, created_at |-> at])]

\* UPDATE reviews SET rating=?, comment=?, created_at=? WHERE user_id=? AND
\* product_id=?: raises sqlite3.IntegrityError when a row would fail the CHECK
UpdateReview(rows, user_id, product_id, rating, comment, at) ==
  IF ~RatingCheck(rating) /\ HasPair(rows, user_id, product_id)
  THEN [raised |-> TRUE, rows |-> rows]
  ELSE [raised |-> FALSE,
        rows |-> [i \in 1..Len(rows) |->
                    IF rows[i].user_id = user_id /\ rows[i].product_id = product_id
                    THEN [rows[i] EXCEPT !.rating = rating, !.comment = comment,
                                         !.created_at = at]
                    ELSE rows[i]]]

\* add_review below its rating guard: INSERT, on IntegrityError UPDATE, commit.
\* An exception of the UPDATE leaves the function (raised) before the commit.
AddReviewTx(rows, user_id, product_id, rating, comment, at) ==
  LET ins == InsertReview(rows, user_id, product_id, rating, comment, at)
  IN  IF ~ins.raised
      THEN [ok |-> TRUE, raised |-> FALSE, rows |-> ins.rows]
      ELSE LET upd == UpdateReview(rows, user_id, product_id, rating, comment, at)
           IN  IF upd.raised
               THEN [ok |-> FALSE, raised |-> TRUE, rows |-> rows]
               ELSE [ok |-> TRUE, raised |-> FALSE, rows |-> upd.rows]

\* variant: the rating is not validated before the INSERT
AddReviewNoRatingGuard(rows, user_id, product_id, rating, comment, at) ==
  AddReviewTx(rows, user_id, product_id, rating, comment, at)

\* add_review(user_id, product_id, rating, comment)
AddReview(rows, user_id, product_id, rating, comment, at) ==
  IF rating < MinRating \/ rating > MaxRating
  THEN [ok |-> FALSE, raised |-> FALSE, rows |-> rows]
  ELSE AddReviewTx(rows, user_id, product_id, rating, comment, at)

AddReviewCall ==
  /\ last = Idle
  /\ \E user_id \in UserIds, product_id \in LedgerProductIds,
        rating \in RatingInputs, comment \in Comments :
       /\ Len(reviews) < MaxReviews \/ HasPair(reviews, user_id, product_id)
       /\ LET r == AddReview(reviews, user_id, product_id, rating, comment, now)
          IN  /\ reviews' = r.rows
              /\ last' = [op |-> "add_review", user_id |-> user_id,
                          product_id |-> product_id, rating |-> rating,
                          comment |-> comment, ok |-> r.ok, raised |-> r.raised]
       /\ UNCHANGED <<products, orders, order_items, wishlist, now, sold, adminOps, conn, writer, users, creds, catalog, appStore>>

\* ------------------------------------------------ add_wishlist, remove_wishlist
\* variant: INSERT OR REPLACE, the existing row gives way to a new one
InsertOrReplaceWishlist(rows, user_id, product_id, at) ==
  Append(SelectSeq(rows, LAMBDA r : ~(r.user_id = user_id /\ r.product_id = product_id)),
         [user_id |-> user_id, product_id |-> product_id, created_at |-> at])

\* INSERT OR IGNORE INTO wishlist(user_id, product_id, created_at): a row that
\* would violate UNIQUE(user_id, product_id) is skipped
InsertOrIgnoreWishlist(rows, user_id, product_id, at) ==
  IF HasPair(rows, user_id, product_id)
  THEN rows
  ELSE Append(rows, [user_id |-> user_id, product_id |-> product_id, created_at |-> at])

\* add_wishlist(user_id, product_id)
AddWishlist(rows, user_id, product_id, at) ==
  [ok |-> TRUE, rows |-> InsertOrIgnoreWishlist(rows, user_id, product_id, at)]

\* remove_wishlist(user_id, product_id): DELETE ... WHERE user_id=? AND product_id=?
RemoveWishlist(rows, user_id, product_id) ==
  [ok |-> TRUE,
   rows |-> SelectSeq(rows, LAMBDA r : ~(r.user_id = user_id /\ r.product_id = product_id))]

AddWishlistCall ==
  /\ last = Idle
  /\ \E user_id \in UserIds, product_id \in LedgerProductIds :
       LET r == AddWishlist(wishlist, user_id, product_id, now)
       IN  /\ wishlist' = r.rows
           /\ last' = [op |-> "add_wishlist", user_id |-> user_id,
                       product_id |-> product_id, ok |-> r.ok]
  /\ UNCHANGED <<products, orders, order_items, reviews, now, sold, adminOps, conn, writer, users, creds, catalog, appStore>>

RemoveWishlistCall ==
  /\ last = Idle
  /\ \E user_id \in UserIds, product_id \in LedgerProductIds :
       LET r == RemoveWishlist(wishlist, user_id, product_id)
       IN  /\ wishlist' = r.rows
           /\ last' = [op |-> "remove_wishlist", user_id |-> user_id,
                       product_id |-> product_id, ok |-> r.ok]
  /\ UNCHANGED <<products, orders, order_items, reviews, now, sold, adminOps, conn, writer, users, creds, catalog, appStore>>

\* time passes between two calls
Tick ==
  /\ last = Idle
  /\ now < MaxClock
  /\ now' = now + 1
  /\ UNCHANGED <<products, orders, order_items, reviews, wishlist, last, sold, adminOps, conn, writer, users, creds, catalog, appStore>>

\* ------------------------------------- place_order on concurrent connections
\* Each connection runs the statements of one place_order call; the steps of
\* different connections interleave. sqlite3's default transaction handling
\* runs a SELECT outside any transaction and opens one (taking the database's
\* write lock) at the first INSERT or UPDATE; the lock is held to the commit
\* or rollback. A reader sees the committed tables.
\* place_order is entered: the empty cart returns at once, any other cart
\* reads the clock and opens a connection
ConnCall(c) ==
  /\ conn[c].pc = "idle"
  /\ \E user_id \in Buyers, cart \in MergedCarts :
       conn' = [conn EXCEPT ![c] =
                  IF cart = <<>>
                  THEN [pc |-> "done", user_id |-> user_id, cart |-> cart,
                        ok |-> FALSE, msg |-> [text |-> "Cart empty.", name |-> ""],
                        oid |-> None]
                  ELSE [pc |-> "check", user_id |-> user_id, cart |-> cart,
                        at |-> now, i |-> 1]]
  /\ UNCHANGED <<products, orders, order_items, reviews, wishlist, now, last, sold,
                 adminOps, writer, users, creds, catalog, appStore>>

\* one round of the stock-check loop: the SELECT reads the committed table
ConnCheck(c) ==
  /\ conn[c].pc = "check"
  /\ LET me == conn[c]
         it == me.cart[me.i]
     IN  conn' = [conn EXCEPT ![c] =
                    IF ~StockOk(DB, it)
                    THEN [pc |-> "done", user_id |-> me.user_id, cart |-> me.cart,
                          ok |-> FALSE,
                          msg |-> [text |-> "Not enough stock for", name |-> it.name],
                          oid |-> None]
                    ELSE IF me.i < Len(me.cart)
                    THEN [me EXCEPT !.i = @ + 1]
                    ELSE [pc |-> "write", user_id |-> me.user_id, cart |-> me.cart,
                          at |-> me.at, n |-> 1, tx |-> None]]
  /\ UNCHANGED <<products, orders, order_items, reviews, wishlist, now, last, sold,
                 adminOps, writer, users, creds, catalog, appStore>>

\* variant: the connection is in autocommit mode, every write statement
\* is committed as it is executed
ConnWriteAutocommit(c) ==
  /\ conn[c].pc = "write"
  /\ writer \in {0, c}
  /\ LET me == conn[c]
         t2 == ApplyWrite(DB, me.user_id, me.cart, me.at, me.n)
     IN  /\ conn' = [conn EXCEPT ![c] =
                       IF me.n < NWrites(me.cart)
                       THEN [me EXCEPT !.n = @ + 1, !.tx = t2]
                       ELSE [pc |-> "commit", user_id |-> me.user_id, cart |-> me.cart,
                             tx |-> t2]]
         /\ products' = t2.products
         /\ orders' = t2.orders
         /\ order_items' = t2.order_items
  /\ writer' = c
  /\ UNCHANGED <<reviews, wishlist, now, last, sold, adminOps, users, creds, catalog, appStore>>

\* the next write statement: the first one opens the transaction and takes
\* the write lock, which must be free; the transaction's view starts from the
\* committed tables
ConnWrite(c) ==
  /\ conn[c].pc = "write"
  /\ writer \in {0, c}
  /\ LET me == conn[c]
         t  == IF writer = c THEN me.tx ELSE DB
         t2 == ApplyWrite(t, me.user_id, me.cart, me.at, me.n)
     IN  conn' = [conn EXCEPT ![c] =
                    IF me.n < NWrites(me.cart)
                    THEN [me EXCEPT !.n = @ + 1, !.tx = t2]
                    ELSE [pc |-> "commit", user_id |-> me.user_id, cart |-> me.cart,
                          tx |-> t2]]
  /\ writer' = c
  /\ UNCHANGED <<products, orders, order_items, reviews, wishlist, now, last, sold,
                 adminOps, users, creds, catalog, appStore>>

\* the first write finds the lock held past the busy timeout: the statement
\* raises "database is locked", the handler rolls back and returns failure
ConnBusy(c) ==
  /\ conn[c].pc = "write"
  /\ writer \notin {0, c}
  /\ conn' = [conn EXCEPT ![c] =
                [pc |-> "done", user_id |-> conn[c].user_id, cart |-> conn[c].cart,
                 ok |-> FALSE, msg |-> [text |-> "Error placing order", name |-> ""],
                 oid |-> None]]
  /\ UNCHANGED <<products, orders, order_items, reviews, wishlist, now, last, sold,
                 adminOps, writer, users, creds, catalog, appStore>>

\* conn.commit(); return True, "Order placed.", order_id
ConnCommit(c) ==
  /\ conn[c].pc = "commit"
  /\ writer = c
  /\ LET me == conn[c]
         d  == Commit(DB, me.tx)
     IN  /\ products' = d.products
         /\ orders' = d.orders
         /\ order_items' = d.order_items
         /\ sold' = [p \in ProductIds |-> sold[p] + CartQty(me.cart, p)]
         /\ conn' = [conn EXCEPT ![c] =
                       [pc |-> "done", user_id |-> me.user_id, cart |-> me.cart,
                        ok |-> TRUE, msg |-> [text |-> "Order placed.", name |-> ""],
                        oid |-> <<LastRowId(me.tx)>>]]
  /\ writer' = 0
  /\ UNCHANGED <<reviews, wishlist, now, last, adminOps, users, creds, catalog, appStore>>


\* ------------------------------------------- place_order, any quantities
\* place_order takes the cart as the caller built it: quantities are any
\* integers, zero and negative included
AnyQuantities == (0 - 1)..MaxQty

\* the price a cart line carries for a product
CartPriceOf(pid) == IF pid = 1 THEN 150 ELSE 200

AnyQtyLines ==
  { [id |-> i, name |-> NameOf(i), price |-> CartPriceOf(i), quantity |-> q] :
      i \in ProductIds, q \in AnyQuantities }

AnyQtyCarts == SeqsUpTo(AnyQtyLines, MaxCartLen)

PlaceAnyQtyOrderCall == PlaceOrderOver(Buyers, AnyQtyCarts)

\* ----------------------------------------- place_order of src/app.py
\* variant: the handler returns failure without conn.rollback() and the
\* writes made before the exception are committed
AppPlaceOrderKeepsWrites(d, user_id, cart, at, fault) ==
  IF cart = <<>>
  THEN [db |-> d, ok |-> FALSE, msg |-> [text |-> "Cart empty", name |-> ""]]
  ELSE LET bad == FirstBad(d, cart)
       IN  IF bad # 0
           THEN [db |-> d, ok |-> FALSE,
                 msg |-> [text |-> "Not enough stock for", name |-> cart[bad].name]]
           ELSE IF fault = 0
           THEN [db |-> Commit(d, RunWrites(d, user_id, cart, at, NWrites(cart))),
                 ok |-> TRUE, msg |-> [text |-> "Order placed", name |-> ""]]
           ELSE [db |-> RunWrites(d, user_id, cart, at, fault - 1),
                 ok |-> FALSE, msg |-> [text |-> "str(e)", name |-> ""]]

\* place_order(user_id, cart_items) of src/app.py, run alone on the store d:
\* the same statements as src/database.py's, the clock read after the stock
\* check, other message texts
AppPlaceOrder(d, user_id, cart, at, fault) ==
  IF cart = <<>>
  THEN [db |-> d, ok |-> FALSE, msg |-> [text |-> "Cart empty", name |-> ""]]
  ELSE LET bad == FirstBad(d, cart)
       IN  IF bad # 0
           THEN [db |-> d, ok |-> FALSE,
                 msg |-> [text |-> "Not enough stock for", name |-> cart[bad].name]]
           ELSE IF fault = 0
           THEN [db |-> Commit(d, RunWrites(d, user_id, cart, at, NWrites(cart))),
                 ok |-> TRUE, msg |-> [text |-> "Order placed", name |-> ""]]
           ELSE [db |-> Rollback(d, RunWrites(d, user_id, cart, at, fault - 1)),
                 ok |-> FALSE, msg |-> [text |-> "str(e)", name |-> ""]]

\* one call of each variant, each on its own store, with the same user id and
\* cart, at the same time and with the same statement (if any) raising
PlaceOrderBothCall ==
  /\ last = Idle
  /\ Len(orders) < MaxOrders
  /\ \E user_id \in Buyers, cart \in AnyQtyCarts :
       \E fault \in Faults(DB, cart) :
         LET r == PlaceOrder(DB, user_id, cart, now, fault)
             a == AppPlaceOrder(appStore, user_id, cart, now, fault)
         IN  /\ products' = r.db.products
             /\ orders' = r.db.orders
             /\ order_items' = r.db.order_items
             /\ appStore' = a.db
             /\ last' = [op |-> "place_order_both", user_id |-> user_id, cart |-> cart,
                         fault |-> fault, ok |-> r.ok, msg |-> r.msg,
                         app_ok |-> a.ok, app_msg |-> a.msg]
             /\ sold' = [p \in ProductIds |->
                           sold[p] + (IF r.ok THEN CartQty(cart, p) ELSE 0)]
  /\ UNCHANGED <<reviews, wishlist, now, adminOps, conn, writer, users, creds, catalog>>

\* ----------------------------------------------------------- order history
\* list_orders(user_id): SELECT * FROM orders WHERE user_id=? ORDER BY
\* datetime(created_at) DESC. datetime() keeps whole seconds, so orders of
\* one second are equal under the key and may come in any order.
ListOrders(ords, user_id) ==
  LET ids == { i \in 1..Len(ords) : ords[i].user_id = user_id }
      rank == [i \in ids |-> 0 - Second(ords[i].created_at)]
  IN  { [k \in 1..Len(o) |-> ords[o[k]]] : o \in SortedSeqs(ids, rank) }

\* order_items(order_id): SELECT oi.*, p.name FROM order_items oi JOIN
\* products p ON p.id = oi.product_id WHERE oi.order_id=?; the inner join
\* keeps the lines whose product has a row
OrderItems(oitems, prods, cat, order_id) ==
  LET kept == SelectSeq(oitems, LAMBDA oi :
                          oi.order_id = order_id /\ oi.product_id \in DOMAIN prods)
  IN  [k \in 1..Len(kept) |->
         [id |-> kept[k].id, order_id |-> kept[k].order_id,
          product_id |-> kept[k].product_id, quantity |-> kept[k].quantity,
          price_each |-> kept[k].price_each, name |-> cat[kept[k].product_id].name]]

\* delete_product(pid): DELETE FROM products WHERE id=? (foreign keys are
\* not enforced: the connection never turns them on)
DeleteProduct(prods, cat, pid) ==
  [products |-> [q \in DOMAIN prods \ {pid} |-> prods[q]],
   catalog  |-> [q \in DOMAIN cat \ {pid} |-> cat[q]]]

\* the carts of the order history: one of product 1, or one of each product
HistoryCarts ==
  { cart \in Carts :
      /\ cart # <<>>
      /\ \A i \in 1..Len(cart) :
           cart[i].id = i /\ cart[i].price = 150 /\ cart[i].quantity = 1 }

PlaceHistoryOrderCall == PlaceOrderOver(UserIds, HistoryCarts)

ListOrdersCall ==
  /\ last = Idle
  /\ \E user_id \in UserIds :
       \E rows \in ListOrders(orders, user_id) :
         last' = [op |-> "list_orders", user_id |-> user_id, rows |-> rows]
  /\ UNCHANGED <<products, orders, order_items, reviews, wishlist, now, sold, adminOps,
                 conn, writer, users, creds, catalog, appStore>>

OrderItemsCall ==
  /\ last = Idle
  /\ \E order_id \in 1..MaxOrders :
       last' = [op |-> "order_items", order_id |-> order_id,
                rows |-> OrderItems(order_items, products, catalog, order_id)]
  /\ UNCHANGED <<products, orders, order_items, reviews, wishlist, now, sold, adminOps,
                 conn, writer, users, creds, catalog, appStore>>

DeleteProductCall ==
  /\ last = Idle
  /\ \E pid \in ProductIds :
       LET r == DeleteProduct(products, catalog, pid)
       IN  /\ products' = r.products
           /\ catalog' = r.catalog
           /\ last' = [op |-> "delete_product", pid |-> pid, ok |-> TRUE]
  /\ UNCHANGED <<orders, order_items, reviews, wishlist, now, sold, adminOps,
                 conn, writer, users, creds, appStore>>

\* ------------------------------------- reads beside concurrent place_order
\* a write statement of the open transaction raises: the handler rolls back
\* (the transaction's view is dropped, the lock released) and returns failure
ConnFail(c) ==
  /\ conn[c].pc = "write"
  /\ writer = c
  /\ conn' = [conn EXCEPT ![c] =
                [pc |-> "done", user_id |-> conn[c].user_id, cart |-> conn[c].cart,
                 ok |-> FALSE, msg |-> [text |-> "Error placing order", name |-> ""],
                 oid |-> None]]
  /\ writer' = 0
  /\ UNCHANGED <<products, orders, order_items, reviews, wishlist, now, last, sold,
                 adminOps, users, creds, catalog, appStore>>

\* reads on a further connection, at any point of the calls in progress: the
\* stock of each product, list_orders and order_items. A read sees the
\* committed tables; open |-> the connection whose transaction is open.
ReadCall ==
  /\ last = Idle
  /\ \E user_id \in Buyers :
       \E rows \in ListOrders(orders, user_id) :
         last' = [op |-> "read", user_id |-> user_id,
                  stock |-> [p \in ProductIds |-> SelectStock(DB, p)],
                  orders |-> rows,
                  items |-> [o \in 1..MaxOrders |->
                               OrderItems(order_items, products, catalog, o)],
                  open |-> writer]
  /\ UNCHANGED <<products, orders, order_items, reviews, wishlist, now, sold, adminOps,
                 conn, writer, users, creds, catalog, appStore>>

NextConc ==
  \/ \E c \in Conns :
       \/ ConnCall(c)
       \/ ConnCheck(c)
       \/ ConnWrite(c)
       \/ ConnBusy(c)
       \/ ConnFail(c)
       \/ ConnCommit(c)
  \/ ReadCall
  \/ Returned

\* two place_order calls on separate connections
SpecConc == Init /\ [][NextConc]_vars

\* ------------------------------------------------------ catalog operations
AddProductCall ==
  /\ last = Idle
  /\ Cardinality(DOMAIN products) < MaxProducts
  /\ \E name \in ProductNames, price \in Prices, category \in CategoryInputs :
       LET r == AddProduct(products, catalog, name, price, category, MaxStock, now)
       IN  /\ products' = r.products
           /\ catalog' = r.catalog
           /\ last' = [op |-> "add_product", name |-> name, price |-> price,
                       category |-> category, ok |-> TRUE]
  /\ UNCHANGED <<orders, order_items, reviews, wishlist, now, sold, adminOps,
                 conn, writer, users, creds, appStore>>

\* list_products with its arguments drawn from the given sets
ListProductsOver(searches, categories, bounds, sorts, pages, sizes) ==
  /\ last = Idle
  /\ \E search \in searches, category \in categories, price_min \in bounds,
        price_max \in bounds, sort_by \in sorts, page \in pages, page_size \in sizes :
       \E r \in ListProducts(products, catalog, reviews, search, category,
                             price_min, price_max, sort_by, page, page_size) :
         last' = [op |-> "list_products", search |-> search, category |-> category,
                  price_min |-> price_min, price_max |-> price_max,
                  sort_by |-> sort_by, page |-> page, page_size |-> page_size,
                  raised |-> r.raised, rows |-> r.rows, total |-> r.total]
  /\ UNCHANGED <<products, orders, order_items, reviews, wishlist, now, sold, adminOps,
                 conn, writer, users, creds, catalog, appStore>>

ListProductsCall ==
  ListProductsOver(Searches, CategoryFilters, PriceBounds, SortKeys, Pages, PageSizes)

\* the catalog page as first shown: no filter, first page
ListAllProductsCall ==
  ListProductsOver({<<>>}, {"All"}, {None}, SortKeys, {1}, {MaxPageSize})

ProductCategoriesCall ==
  /\ last = Idle
  /\ last' = [op |-> "product_categories", ret |-> ProductCategories(catalog)]
  /\ UNCHANGED <<products, orders, order_items, reviews, wishlist, now, sold, adminOps,
                 conn, writer, users, creds, catalog, appStore>>

\* --------------------------------------------------------- user operations
RegisterCall ==
  /\ last = Idle
  /\ Len(users) < MaxUsers
  /\ \E username \in Usernames, password \in Passwords, fresh \in Salts :
       LET r == RegisterUser(users, username, password, fresh, now)
       IN  /\ users' = r.users
           /\ creds' = IF r.ok
                       THEN Append(creds, [username |-> username, password |-> password,
                                           changed |-> FALSE])
                       ELSE creds
           /\ last' = [op |-> "register_user", username |-> username,
                       password |-> password, ok |-> r.ok, msg |-> r.msg]
  /\ UNCHANGED <<products, orders, order_items, reviews, wishlist, now, sold, adminOps,
                 conn, writer, catalog, appStore>>

AuthenticateCall ==
  /\ last = Idle
  /\ \E username \in Usernames, password \in Passwords :
       LET r == Authenticate(users, username, password)
       IN  last' = [op |-> "authenticate", username |-> username,
                    password |-> password, ok |-> r[1], user |-> r[2], ret |-> r]
  /\ UNCHANGED <<products, orders, order_items, reviews, wishlist, now, sold, adminOps,
                 conn, writer, users, creds, catalog, appStore>>

ChangePasswordCall ==
  /\ last = Idle
  /\ \E user_id \in 1..MaxUsers, old_password \in Passwords,
        new_password \in Passwords, fresh \in Salts :
       LET r == ChangePassword(users, user_id, old_password, new_password, fresh)
       IN  /\ users' = r.users
           /\ creds' = IF r.ok
                       THEN [creds EXCEPT ![user_id].password = new_password,
                                          ![user_id].changed = TRUE]
                       ELSE creds
           /\ last' = [op |-> "change_password", user_id |-> user_id,
                       old_password |-> old_password, new_password |-> new_password,
                       ok |-> r.ok, msg |-> r.msg]
  /\ UNCHANGED <<products, orders, order_items, reviews, wishlist, now, sold, adminOps,
                 conn, writer, catalog, appStore>>

Next ==
  \/ PlaceOrderCall
  \/ UpdateProductCall
  \/ Returned

Spec == Init /\ [][Next]_vars

NextReviews ==
  \/ AddReviewCall
  \/ Returned

\* the review ledger alone
SpecReviews == Init /\ [][NextReviews]_vars

NextWishlist ==
  \/ AddWishlistCall
  \/ RemoveWishlistCall
  \/ Tick
  \/ Returned

\* the wishlist alone, with the clock running
SpecWishlist == Init /\ [][NextWishlist]_vars

NextUsers ==
  \/ RegisterCall
  \/ AuthenticateCall
  \/ ChangePasswordCall
  \/ Returned

\* the credential store alone
SpecUsers == Init /\ [][NextUsers]_vars

NextCatalog ==
  \/ AddProductCall
  \/ ListProductsCall
  \/ ProductCategoriesCall
  \/ Returned

\* the admin's catalog and the shop's listing of it
SpecCatalog == Init /\ [][NextCatalog]_vars

NextRatings ==
  \/ AddReviewCall
  \/ ListAllProductsCall
  \/ Returned

\* reviews and the listing of the seeded catalog
SpecRatings == Init /\ [][NextRatings]_vars

NextHistory ==
  \/ PlaceHistoryOrderCall
  \/ UpdateProductCall
  \/ DeleteProductCall
  \/ ListOrdersCall
  \/ OrderItemsCall
  \/ Tick
  \/ Returned

\* orders, the clock, and the admin's changes to the products they name
SpecHistory == Init /\ [][NextHistory]_vars

NextQuantities ==
  \/ PlaceAnyQtyOrderCall
  \/ Returned

\* place_order called directly, with carts of any quantities
SpecQuantities == Init /\ [][NextQuantities]_vars

NextVariants ==
  \/ PlaceOrderBothCall
  \/ Returned

\* the two variants of place_order side by side
SpecVariants == Init /\ [][NextVariants]_vars

\* ------------------------------------------------------------ properties
\* a place_order call has just returned
JustPlaced == last.op = "place_order"

\* the current step is a place_order call
PlacesOrder == last = Idle /\ last'.op = "place_order"

\* a cart line the products table cannot satisfy: no such product, or less
\* stock than the line asks for
Unsatisfiable(prods, it) ==
  it.id \notin DOMAIN prods \/ prods[it.id].stock < it.quantity

\* sum over the first n lines of price x quantity
RECURSIVE LineSum(_, _)
LineSum(cart, n) ==
  IF n = 0 THEN 0 ELSE LineSum(cart, n - 1) + cart[n].quantity * cart[n].price

\* C1: with place_order calls run one at a time and positive quantities
\* (no admin mutation), no product's stock is ever negative.
C1_StockNeverNegative ==
  adminOps = 0 => \A p \in DOMAIN products : products[p].stock >= 0

\* C3: a place_order call whose cart has a line that names a missing product
\* or asks for more than the stock returns a failure naming such a line's
\* product, and leaves orders, order_items and every stock as they were.
C3_UnsatisfiableCartChangesNothing ==
  [][ (PlacesOrder /\ \E i \in 1..Len(last'.cart) : Unsatisfiable(products, last'.cart[i]))
      => /\ ~last'.ok
         /\ last'.oid = None
         /\ last'.msg.text = "Not enough stock for"
         /\ \E i \in 1..Len(last'.cart) :
              /\ Unsatisfiable(products, last'.cart[i])
              /\ last'.msg.name = last'.cart[i].name
         /\ UNCHANGED orderVars ]_vars

\* a failed call whose cart mixes a satisfiable line with an unsatisfiable
\* line of another product, after an earlier order
C3_Witness ==
  /\ JustPlaced /\ ~last.ok /\ orders # <<>>
  /\ \E i, j \in 1..Len(last.cart) :
       /\ ~Unsatisfiable(products, last.cart[i])
       /\ Unsatisfiable(products, last.cart[j])
       /\ last.cart[j].id \in DOMAIN products
       /\ last.cart[i].id # last.cart[j].id

\* C4: without admin mutation, each product's stock is its initial stock
\* minus the quantities of the cart lines of the successful place_order
\* calls; failed calls contribute nothing.
C4_StockIsInitialMinusSold ==
  adminOps = 0 =>
    \A p \in ProductIds :
      p \in DOMAIN products /\ products[p].stock = InitStock(p) - sold[p]

\* a call that failed after issuing writes, following a successful order
C4_Witness ==
  /\ adminOps = 0 /\ JustPlaced /\ ~last.ok /\ last.writes >= 3
  /\ Len(orders) = 1 /\ sold[1] = 2

\* C5: a successful place_order appends exactly one order, whose total is
\* the sum of cart price x cart quantity, and one order item per cart line
\* with that line's product id, quantity and cart price, whatever the
\* products table holds as price.
C5_OrderSnapshotsCartPrices ==
  [][ (PlacesOrder /\ last'.ok)
      => LET cart == last'.cart
             n == Len(orders)
             m == Len(order_items)
         IN  /\ Len(orders') = n + 1
             /\ SubSeq(orders', 1, n) = orders
             /\ orders'[n + 1].total = LineSum(cart, Len(cart))
             /\ orders'[n + 1].user_id = last'.user_id
             /\ last'.oid = <<orders'[n + 1].id>>
             /\ \A k \in 1..n : orders[k].id # orders'[n + 1].id
             /\ Len(order_items') = m + Len(cart)
             /\ SubSeq(order_items', 1, m) = order_items
             /\ \A i \in 1..Len(cart) :
                  LET r == order_items'[m + i]
                  IN  /\ r.order_id = orders'[n + 1].id
                      /\ r.product_id = cart[i].id
                      /\ r.quantity = cart[i].quantity
                      /\ r.price_each = cart[i].price ]_vars

\* a successful two-line order placed after update_product changed the
\* price of a product the cart holds at its old price
C5_Witness ==
  /\ JustPlaced /\ last.ok /\ adminOps = 1 /\ Len(last.cart) = 2
  /\ \E i \in 1..2 :
       /\ last.cart[i].id \in DOMAIN products
       /\ products[last.cart[i].id].price = 200
       /\ last.cart[i].price = 150

\* C6: place_order with an empty cart returns failure and no order id,
\* issues no write, and leaves orders, order_items and stock unchanged.
C6_EmptyCartNoSideEffect ==
  [][ (PlacesOrder /\ last'.cart = <<>>)
      => /\ ~last'.ok
         /\ last'.oid = None
         /\ last'.writes = 0
         /\ UNCHANGED orderVars ]_vars

\* an empty cart was submitted after an earlier order
C6_Witness == JustPlaced /\ last.cart = <<>> /\ orders # <<>>

\* C7: when a write of place_order raises after earlier writes of the call
\* were issued, the call returns failure and no order row, order item or
\* stock decrement of the call remains.
C7_FailedWriteRollsBack ==
  [][ (PlacesOrder /\ last'.fault > 0 /\ last'.writes >= 1)
      => /\ ~last'.ok
         /\ last'.oid = None
         /\ UNCHANGED orderVars ]_vars

\* the last stock update of a two-line cart raised: the order row, both
\* items and one stock update had been issued
C7_Witness ==
  JustPlaced /\ Len(last.cart) = 2 /\ last.fault = 5 /\ last.writes = 4

\* the current step is an add_review call
AddsReview == last = Idle /\ last'.op = "add_review"

\* the current step is an add_wishlist call
AddsWishlist == last = Idle /\ last'.op = "add_wishlist"

\* the rows of a table for one (user_id, product_id), in table order
PairRows(rows, user_id, product_id) ==
  SelectSeq(rows, LAMBDA r : r.user_id = user_id /\ r.product_id = product_id)

\* the rows of a table for every other pair, in table order
OtherRows(rows, user_id, product_id) ==
  SelectSeq(rows, LAMBDA r : ~(r.user_id = user_id /\ r.product_id = product_id))

\* no (user_id, product_id) has two rows
OneRowPerPair(rows) ==
  \A i, j \in 1..Len(rows) :
    (rows[i].user_id = rows[j].user_id /\ rows[i].product_id = rows[j].product_id) => i = j

\* C8: after every add_review call no pair has two review rows, and after a
\* successful add_review(u, p, r, c) the one row of (u, p) carries r and c,
\* whether it was inserted or overwritten; rows of other pairs are unchanged.
C8_ReviewUpsert ==
  [][ AddsReview
      => /\ OneRowPerPair(reviews')
         /\ last'.ok =>
              LET mine == PairRows(reviews', last'.user_id, last'.product_id)
              IN  /\ Len(mine) = 1
                  /\ mine[1].rating = last'.rating
                  /\ mine[1].comment = last'.comment
                  /\ OtherRows(reviews', last'.user_id, last'.product_id)
                       = OtherRows(reviews, last'.user_id, last'.product_id) ]_vars

\* a successful add_review on the pair of the table's first row while a
\* later row of another pair exists: the call overwrote the first row
C8_Witness ==
  /\ last.op = "add_review" /\ last.ok /\ Len(reviews) = 2
  /\ reviews[1].user_id = last.user_id /\ reviews[1].product_id = last.product_id
  /\ reviews[1].rating = 5 /\ reviews[1].comment = "better"
  /\ last.rating = 5 /\ last.comment = "better"

\* C9: add_review with a rating below 1 or above 5 returns failure and
\* leaves the reviews table as it was, and every stored rating is in 1..5.
C9_BadRatingRejected ==
  [][ AddsReview
      => /\ (last'.rating < 1 \/ last'.rating > 5)
              => (~last'.ok /\ ~last'.raised /\ reviews' = reviews)
         /\ \A i \in 1..Len(reviews') : reviews'[i].rating \in 1..5 ]_vars

\* a rating of 6 was turned away for a pair that has a review
C9_Witness ==
  /\ last.op = "add_review" /\ last.rating = 6 /\ ~last.ok
  /\ HasPair(reviews, last.user_id, last.product_id)

\* C10: no pair ever has two wishlist entries, and add_wishlist(u, p) for a
\* pair already present returns success and leaves the wishlist table, with
\* that entry's created_at and place, as it was.
C10_AddWishlistIdempotent ==
  [][ /\ OneRowPerPair(wishlist')
      /\ AddsWishlist
           => /\ last'.ok
              /\ Len(PairRows(wishlist', last'.user_id, last'.product_id)) = 1
              /\ HasPair(wishlist, last'.user_id, last'.product_id)
                   => wishlist' = wishlist ]_vars

\* add_wishlist was called again, later, for the older of two entries
C10_Witness ==
  /\ last.op = "add_wishlist" /\ last.ok /\ Len(wishlist) = 2
  /\ wishlist[1].user_id = last.user_id /\ wishlist[1].product_id = last.product_id
  /\ wishlist[1].created_at < wishlist[2].created_at /\ wishlist[2].created_at < now

\* both connections' calls have returned success
BothPlaced == \A c \in Conns : conn[c].pc = "done" /\ conn[c].ok

\* C2: two concurrent place_order calls never both succeed when together
\* they ask for more of a product than its stock, and no stock is negative.
C2_NoConcurrentOversell ==
  /\ \A p \in DOMAIN products : products[p].stock >= 0
  /\ BothPlaced =>
       \A p \in ProductIds :
         CartQty(conn[1].cart, p) + CartQty(conn[2].cart, p) <= InitStock(p)

\* ------------------------------------------------------- users properties
Registers == last = Idle /\ last'.op = "register_user"
Authenticates == last = Idle /\ last'.op = "authenticate"
ChangesPassword == last = Idle /\ last'.op = "change_password"

\* the rows register_user created (row 1 is the seeded admin)
Registered == 2..Len(users)

\* C12: while a registered user's password has not been changed,
\* authenticate with the username and password given to register_user
\* succeeds and returns that user's row, and with the same username and any
\* other password it fails.
C12_RegisteredCanAuthenticate ==
  [][ Authenticates =>
        \A i \in Registered :
          (~creds[i].changed /\ creds[i].username = last'.username) =>
            IF last'.password = creds[i].password
            THEN last'.ok /\ last'.user = <<users[i]>> /\ users[i].id = i
            ELSE ~last'.ok ]_vars

\* a user registered under a name with trailing whitespace logged in with
\* the name and password as given
C12_Witness ==
  /\ last.op = "authenticate" /\ last.ok
  /\ \E i \in Registered :
       /\ creds[i].username = last.username /\ ~creds[i].changed
       /\ last.username # users[i].username

\* authenticate(u, p) on the table us, for the user of row i
CanLogin(us, i, password) == Authenticate(us, us[i].username, password)[1]

\* C13 as stated: after a successful change_password the new password
\* authenticates and the old one does not; a failed one changes no row.
C13_OldPasswordNoLongerWorks ==
  [][ ChangesPassword =>
        IF last'.ok
        THEN /\ CanLogin(users', last'.user_id, last'.new_password)
             /\ ~CanLogin(users', last'.user_id, last'.old_password)
        ELSE users' = users ]_vars

\* C13: after a successful change_password(user, old, new) the new password
\* authenticates that user and, when old and new differ, the old one does
\* not; a failed change_password leaves every users row as it was.
C13_ChangePassword ==
  [][ ChangesPassword =>
        IF last'.ok
        THEN /\ CanLogin(users', last'.user_id, last'.new_password)
             /\ last'.old_password # last'.new_password
                  => ~CanLogin(users', last'.user_id, last'.old_password)
             /\ \A i \in 1..Len(users) : i # last'.user_id => users'[i] = users[i]
             /\ Len(users') = Len(users)
        ELSE users' = users ]_vars

\* a registered user changed the password to a different one
C13_Witness ==
  /\ last.op = "change_password" /\ last.ok
  /\ last.user_id \in Registered
  /\ last.old_password # last.new_password
  /\ creds[last.user_id].changed

\* u and p are long enough for register_user
LongEnough(username, password) ==
  Len(username) >= MinUsernameLen /\ Len(password) >= MinPasswordLen

\* register_user left the table alone, or added one non-admin row at its end
RegisterEffect ==
  IF last'.ok
  THEN /\ Len(users') = Len(users) + 1
       /\ SubSeq(users', 1, Len(users)) = users
       /\ users'[Len(users')].is_admin = 0
  ELSE users' = users

\* C14 as stated: with username and password long enough, register_user
\* fails as a duplicate exactly when a stored username equals u.
C14_DuplicateIffExactMatch ==
  [][ (Registers /\ LongEnough(last'.username, last'.password)) =>
        /\ (~last'.ok /\ last'.msg = "Username already exists.")
             <=> \E i \in 1..Len(users) : users[i].username = last'.username
        /\ RegisterEffect ]_vars

\* C14: with username and password long enough, register_user fails as a
\* duplicate exactly when a stored username equals u with its leading and
\* trailing whitespace removed (case-sensitive); every failed call leaves
\* the users table as it was and a successful one adds one non-admin row.
C14_RegisterDuplicate ==
  [][ Registers =>
        /\ LongEnough(last'.username, last'.password) =>
             ((~last'.ok /\ last'.msg = "Username already exists.")
                <=> \E i \in 1..Len(users) : users[i].username = Strip(last'.username))
        /\ RegisterEffect ]_vars

\* register_user refused a name that differs from a stored one in trailing
\* whitespace only
C14_Witness ==
  /\ last.op = "register_user" /\ ~last.ok /\ last.msg = "Username already exists."
  /\ \A i \in 1..Len(users) : users[i].username # last.username
  /\ \E i \in Registered : users[i].username = Strip(last.username)

\* C20: a failed authenticate returns (False, None), whether the username
\* is unknown or the password wrong.
C20_FailureIndistinguishable ==
  (last.op = "authenticate" /\ ~last.ok) => last.ret = <<FALSE, None>>

\* authenticate failed on a wrong password for a registered username
C20_Witness ==
  /\ last.op = "authenticate" /\ ~last.ok
  /\ \E i \in Registered :
       users[i].username = Strip(last.username) /\ creds[i].password # last.password

\* ----------------------------------------------------- catalog properties
ListsProducts == last = Idle /\ last'.op = "list_products"

\* text holds part as a run of consecutive characters
Contains(text, part) ==
  \E i \in 1..(Len(text) + 1) :
    i + Len(part) - 1 <= Len(text) /\ SubSeq(text, i, i + Len(part) - 1) = part

\* the filter as the catalog's contract words it: the name contains the search
\* string whatever the case of the letters, the category is the given one
\* (none given when empty or "All"), the price is within the given bounds
Satisfies(row, search, category, price_min, price_max) ==
  /\ Contains(Lower(row.name), Lower(search))
  /\ (category # "" /\ category # "All") => row.category = <<category>>
  /\ price_min # None => row.price >= price_min[1]
  /\ price_max # None => row.price <= price_max[1]

\* the products the filter of the call just made asks for
Wanted ==
  { pid \in DOMAIN products :
      Satisfies(ProductRow(products, catalog, reviews, pid), last'.search,
                last'.category, last'.price_min, last'.price_max) }

\* the number of items page `page` holds when n items are cut in pages of k
PageLen(n, k, page) ==
  LET lastPage == (n + k - 1) \div k
  IN  IF page < lastPage THEN k
      ELSE IF page = lastPage THEN (IF n % k = 0 THEN k ELSE n % k)
      ELSE 0

\* C11: with N products matching the filter and page size k, list_products
\* returns total = N on every page, k items on every page before the last,
\* N mod k (k when that is 0) on page ceil(N/k), none beyond.
C11_Pagination ==
  [][ ListsProducts =>
        /\ ~last'.raised
        /\ last'.total = <<Cardinality(Wanted)>>
        /\ Len(last'.rows) = PageLen(Cardinality(Wanted), last'.page_size, last'.page)
    ]_vars

\* C15: the rows list_products counts and pages through are exactly the
\* products whose name contains the search string (case-insensitive), whose
\* category is the given one and whose price is within the given bounds.
C15_FilterSemantics ==
  [][ (ListsProducts /\ ~last'.raised) =>
        /\ last'.total = <<Cardinality(Wanted)>>
        /\ \A i \in 1..Len(last'.rows) : last'.rows[i].id \in Wanted ]_vars

\* a/b >= c/d for positive b and d
AtLeast(x, y) == x.num * y.den >= y.num * x.den

\* C16: list_products with sort_by = "rating_desc" returns the page's items
\* in descending order of average rating, a product without reviews
\* counting as 0.
C16_RatingDescOrder ==
  [][ (ListsProducts /\ last'.sort_by = "rating_desc") =>
        /\ ~last'.raised
        /\ \A i, j \in 1..Len(last'.rows) :
             i < j => AtLeast(last'.rows[i].avg_rating, last'.rows[j].avg_rating)
    ]_vars

\* the labels of the catalog with NULL and the empty string as "Uncategorized"
CollapsedLabels ==
  { IF catalog[p].category \in { None, <<"">> }
    THEN "Uncategorized" ELSE catalog[p].category[1] : p \in DOMAIN catalog }

\* C17: product_categories returns "All" followed by the sorted distinct
\* labels, a null or empty category counting as "Uncategorized".
C17_CategoriesCollapseEmpty ==
  last.op = "product_categories" =>
    last.ret = <<"All">> \o SortLabels(CollapsedLabels)

\* ----------------------------------------------------- history properties
ListsOrders == last = Idle /\ last'.op = "list_orders"

\* C18: list_orders(user_id) returns exactly that user's orders, an order
\* placed later (a larger id: ids are given in the order of the calls)
\* before an order placed earlier, also within one clock second.
C18_NewestFirst ==
  [][ ListsOrders =>
        /\ { last'.rows[k] : k \in 1..Len(last'.rows) }
             = { orders[i] : i \in { n \in 1..Len(orders) :
                                       orders[n].user_id = last'.user_id } }
        /\ \A i, j \in 1..Len(last'.rows) :
             i < j => last'.rows[i].id > last'.rows[j].id ]_vars

\* what list_orders and order_items return for order o: its row, and per
\* line the product, the quantity and price_each
OrderView(ords, oitems, prods, cat, o) ==
  LET lines == OrderItems(oitems, prods, cat, o)
  IN  [row   |-> ords[o],
       lines |-> [k \in 1..Len(lines) |->
                    [product_id |-> lines[k].product_id,
                     quantity |-> lines[k].quantity,
                     price_each |-> lines[k].price_each]]]

\* the lines of a cart as an order shows them
CartView(cart) ==
  [k \in 1..Len(cart) |->
     [product_id |-> cart[k].id, quantity |-> cart[k].quantity,
      price_each |-> cart[k].price]]

\* C19: a committed order shows its total and one line per cart line with
\* quantity and price_each, and shows the same after every later operation,
\* update_product and delete_product included.
C19_OrderImmutable ==
  [][ /\ \A o \in 1..Len(orders) :
           OrderView(orders', order_items', products', catalog', o)
             = OrderView(orders, order_items, products, catalog, o)
      /\ (PlacesOrder /\ last'.ok) =>
           LET v == OrderView(orders', order_items', products', catalog', last'.oid[1])
           IN  v.lines = CartView(last'.cart)
                 /\ v.row.total = LineSum(last'.cart, Len(last'.cart)) ]_vars

\* ------------------------------------------------ stored-data properties
\* C21: after any sequence of register_user calls every stored username has
\* at least 3 characters and no two users share a username.
C21_StoredUsernames ==
  /\ \A i \in 1..Len(users) : Len(users[i].username) >= MinUsernameLen
  /\ \A i, j \in 1..Len(users) : users[i].username = users[j].username => i = j

\* C22: every order item place_order persists has quantity >= 1, and a cart
\* line of quantity < 1 never raises a stock, whatever integers the cart's
\* quantities are.
C22_QuantityAtLeastOne ==
  [][ PlacesOrder =>
        /\ \A i \in 1..Len(order_items') : order_items'[i].quantity >= 1
        /\ \A p \in DOMAIN products : products'[p].stock <= products[p].stock
    ]_vars

\* the order_items rows that reference order o
ItemsOf(oitems, o) == SelectSeq(oitems, LAMBDA oi : oi.order_id = o)

RECURSIVE ItemsSum(_)
ItemsSum(rows) ==
  IF rows = <<>> THEN 0
  ELSE Head(rows).quantity * Head(rows).price_each + ItemsSum(Tail(rows))

\* C24: each order's total is the sum of quantity x price_each over its
\* order items, every order has an order item, and every order item
\* references an order, after any mix of successful and failed calls.
C24_OrdersMatchItems ==
  /\ \A n \in 1..Len(orders) :
       /\ ItemsOf(order_items, orders[n].id) # <<>>
       /\ orders[n].total = ItemsSum(ItemsOf(order_items, orders[n].id))
  /\ \A i \in 1..Len(order_items) :
       \E n \in 1..Len(orders) : orders[n].id = order_items[i].order_id

\* an order of two lines is stored and a later call was rolled back after
\* it had written its order row and an order item
C24_Witness ==
  /\ last.op = "place_order" /\ ~last.ok /\ last.writes >= 2
  /\ Len(orders) = 1 /\ Len(order_items) = 2
  /\ order_items[1].quantity # 1

\* ------------------------------------------------- isolation properties
Reads == last = Idle /\ last'.op = "read"

\* the connections whose call has committed
Committed == { c \in Conns : conn[c].pc = "done" /\ conn[c].ok }

RECURSIVE QtyOver(_, _)
QtyOver(cs, p) ==
  IF cs = {} THEN 0
  ELSE LET c == CHOOSE x \in cs : TRUE
       IN  CartQty(conn[c].cart, p) + QtyOver(cs \ {c}, p)

\* the lines order_items returned, as CartView shows a cart
LinesView(rows) ==
  [k \in 1..Len(rows) |->
     [product_id |-> rows[k].product_id, quantity |-> rows[k].quantity,
      price_each |-> rows[k].price_each]]

\* C23: a read on another connection, at any point of the place_order calls
\* in progress, sees each order row with all the lines of its cart, and each
\* stock lowered by whole committed carts only.
C23_NoPartialStateVisible ==
  [][ Reads =>
        /\ \A k \in 1..Len(last'.orders) :
             \E c \in Committed :
               /\ conn[c].oid = <<last'.orders[k].id>>
               /\ LinesView(last'.items[last'.orders[k].id]) = CartView(conn[c].cart)
        /\ \A p \in ProductIds :
             last'.stock[p] = <<InitStock(p) - QtyOver(Committed, p)>> ]_vars

\* the read was made while a transaction had written its order row and first
\* order item, with the stock update and a second line still to come
C23_Witness ==
  /\ last.op = "read" /\ last.open # 0
  /\ conn[last.open].pc = "write" /\ conn[last.open].n = 3
  /\ Len(conn[last.open].cart) = 2
  /\ writer = last.open

\* ------------------------------------------- category list and filter
\* the label product_categories shows a product under
LabelOf(cat, p) ==
  IF cat[p].category = None THEN "Uncategorized" ELSE cat[p].category[1]

\* C25: every label product_categories returns other than "All", passed as
\* the category filter of list_products with no other filter, selects the
\* products shown under that label, at least one.
C25_LabelsSelectTheirProducts ==
  last.op = "product_categories" =>
    \A k \in 2..Len(last.ret) :
      LET label == last.ret[k]
          got   == Matching(products, catalog, reviews, <<>>, label, None, None)
      IN  got # {} /\ got = { p \in DOMAIN catalog : LabelOf(catalog, p) = label }

\* ------------------------------------------------- variants of place_order
\* C26: given the same user id and cart from the same store state, the
\* place_order of src/app.py and that of src/database.py return the same
\* success flag and leave orders, order_items and stock in the same state,
\* after every sequence of calls.
C26_VariantsEquivalent ==
  /\ appStore = DB
  /\ last.op = "place_order_both" => last.ok = last.app_ok

\* after an order stored by both, both variants rolled a call back, with
\* different message texts
C26_Witness ==
  /\ last.op = "place_order_both" /\ ~last.ok /\ last.fault >= 2
  /\ last.msg # last.app_msg
  /\ Len(appStore.orders) = 1

====
